---- MODULE Spec2Model ----
(***************************************************************************)
(* Model of the user backend: the User entity, the CreateUser / GetUser    *)
(* use cases and the DynamoDB repository adapter they run against.         *)
(*                                                                         *)
(* Strings that the code inspects character by character (email, name)     *)
(* are sequences of one-character strings.  A datetime is a record         *)
(* [t, aware]; its ISO-8601 text is a record [t, offset].  A UUID is a     *)
(* positive integer, its text form a tagged tuple.                         *)
(***************************************************************************)
EXTENDS Integers, Sequences, FiniteSets, TLC

\* ---------------------------------------------------------------- bounds
MaxCalls == 2
MaxIds == 2
MaxClock == 1
\* items of a scan that are sure to fit into its first page
PageItems == 1
\* repository instances constructed in an execution
MaxRepos == 2

\* the CreateUser invocations of an execution, numbered in call order
Procs == 1..MaxCalls
UUIDs == 1..MaxIds

\* ------------------------------------------------------- python constants
NoneId == 0
NoneDT == [t |-> -1, aware |-> FALSE]
NoUser == [none |-> TRUE]
NoItem == [noitem |-> TRUE]

\* ------------------------------------------------------------ characters
Lower == {"a", "b", "c", "o"}
Upper == {"A"}
Digit == {"1"}
Letters == Lower \cup Upper
LocalChars == Letters \cup Digit \cup {".", "_", "%", "+", "-"}
DomainChars == Letters \cup Digit \cup {".", "-"}

\* sample inputs: one per shape the validation has to tell apart
EmailOk == <<"a", "@", "b", ".", "c", "o">>
EmailUpper == <<"A", "@", "b", ".", "c", "o">>
EmailNewline == <<"a", "@", "b", ".", "c", "o", "\n">>
EmailLeadSpace == <<" ", "a", "@", "b", ".", "c", "o">>
EmailTrailSpace == <<"a", "@", "b", ".", "c", "o", " ">>
EmailNoAt == <<"a", "b", ".", "c", "o">>
EmailNoDomain == <<"a", "@">>
EmailNoTld == <<"a", "@", "b">>
EmailEmpty == << >>

Emails == {EmailOk, EmailUpper, EmailNewline, EmailLeadSpace, EmailTrailSpace,
           EmailNoAt, EmailNoDomain, EmailNoTld, EmailEmpty}

NameAnn == <<"A", "b">>
NameBlank == <<" ">>
NameEmpty == << >>
Names == {NameAnn, NameBlank, NameEmpty}

\* the requests tried: every email with a proper name, every name with a
\* well-formed email
Requests == (Emails \X {NameAnn}) \cup ({EmailOk} \X Names)

\* ------------------------------------------------------------ validation
\* python truthiness of a str: only the empty string is falsy
Falsy(s) == Len(s) = 0

AllIn(s, from, to, chars) == \A i \in from..to : s[i] \in chars

\* re.match(r'^[a-zA-Z0-9._%+-]+@[a-zA-Z0-9.-]+\.[a-zA-Z]{2,}$', email):
\* '$' matches at the end of the string and also just before a newline
\* that is the last character.
is_valid_email(email) ==
    \E at \in 2..Len(email), dot \in 4..Len(email), end \in 6..Len(email) :
        /\ at + 1 < dot
        /\ dot + 2 <= end
        /\ email[at] = "@"
        /\ email[dot] = "."
        /\ AllIn(email, 1, at - 1, LocalChars)
        /\ AllIn(email, at + 1, dot - 1, DomainChars)
        /\ AllIn(email, dot + 1, end, Letters)
        /\ \/ end = Len(email)
           \/ end = Len(email) - 1 /\ email[Len(email)] = "\n"

\* the validations without the format check
Validate_no_format(email, name) ==
    IF Falsy(email) \/ Falsy(name) THEN "InvalidInput" ELSE "ok"

\* lines 32-37 of CreateUserUseCase.execute
Validate(email, name) ==
    IF Falsy(email) \/ Falsy(name) THEN "InvalidInput"
    ELSE IF ~is_valid_email(email) THEN "InvalidInput"
    ELSE "ok"

\* ------------------------------------------------------------ conversions
\* datetime.now(timezone.utc) read at instant t
Utc(t) == [t |-> t, aware |-> TRUE]

\* datetime.isoformat(): the text carries an offset only for aware values
isoformat(dt) == [t |-> dt.t, offset |-> dt.aware]

\* datetime.fromisoformat(text), then replace(tzinfo=utc) when the text had
\* no offset (lines 137-143 of the adapter): the result is always aware
parse_datetime(text) == [t |-> text.t, aware |-> TRUE]

\* str(uuid) and UUID(text)
StrUUID(id) == <<"uuid", id>>
ParseUUID(text) == text[2]

\* -------------------------------------------------------------- the entity
\* User(...) followed by __post_init__; fresh is what uuid4() would return,
\* t1 and t2 are the two successive readings of the clock
User(id, email, name, is_active, created_at, updated_at, fresh, t1, t2) ==
    [id |-> IF id = NoneId THEN fresh ELSE id,
     email |-> email,
     name |-> name,
     is_active |-> is_active,
     created_at |-> IF created_at = NoneDT THEN Utc(t1) ELSE created_at,
     updated_at |-> IF updated_at = NoneDT THEN Utc(t2) ELSE updated_at]

\* ---------------------------------------------------------- the repository
ItemFields == {"id", "email", "name", "is_active", "created_at", "updated_at"}

\* the Item dictionary built by save()
user_to_item(user) ==
    [id |-> StrUUID(user.id),
     email |-> user.email,
     name |-> user.name,
     is_active |-> user.is_active,
     created_at |-> isoformat(user.created_at),
     updated_at |-> isoformat(user.updated_at)]

\* _item_to_user reads all six attributes; a missing one raises KeyError
Decodable(item) == ItemFields \subseteq DOMAIN item

\* a conversion that takes every stored user for an active one
item_to_user_active(item) ==
    [id |-> ParseUUID(item.id),
     email |-> item.email,
     name |-> item.name,
     is_active |-> TRUE,
     created_at |-> parse_datetime(item.created_at),
     updated_at |-> parse_datetime(item.updated_at)]

\* _item_to_user: the six attributes back into a User
item_to_user(item) ==
    [id |-> ParseUUID(item.id),
     email |-> item.email,
     name |-> item.name,
     is_active |-> item.is_active,
     created_at |-> parse_datetime(item.created_at),
     updated_at |-> parse_datetime(item.updated_at)]

\* a put into a table keyed by email: the item takes the place of the one
\* with its email
put_item_by_email(tbl, item) ==
    {i \in tbl : i.email # item.email} \cup {item}

\* a put that adds the item next to the one already stored under its key
put_item_append(tbl, item) == tbl \cup {item}

\* DynamoDB table keyed by id: put_item replaces the item with the same key
put_item(tbl, item) == {i \in tbl : i.id # item.id} \cup {item}

get_item(tbl, key) ==
    IF \E i \in tbl : i.id = key
    THEN CHOOSE i \in tbl : i.id = key
    ELSE NoItem

\* query on the email-index: the items that carry the attribute and match
query_email(tbl, email) ==
    {i \in tbl : "email" \in DOMAIN i /\ i.email = email}

\* what response['Items'][0] can be (NoItem: the list is empty)
FirstItems(tbl, email) ==
    IF query_email(tbl, email) = {} THEN {NoItem} ELSE query_email(tbl, email)

Raised == [raised |-> TRUE, ret |-> NoUser]
Returned(u) == [raised |-> FALSE, ret |-> u]

\* a save that refuses an email the table already holds
save_unique(tbl, user, fault) ==
    IF fault \/ query_email(tbl, user.email) # {}
    THEN [table |-> tbl, raised |-> TRUE, ret |-> NoUser]
    ELSE [table |-> put_item(tbl, user_to_item(user)), raised |-> FALSE,
          ret |-> user]

\* a save whose failure is noticed only after the item went in
save_write_then_raise(tbl, user, fault) ==
    [table |-> put_item(tbl, user_to_item(user)), raised |-> fault,
     ret |-> IF fault THEN NoUser ELSE user]

\* save(): fault is the client call raising; the adapter re-raises Exception
save(tbl, user, fault) ==
    IF fault
    THEN [table |-> tbl, raised |-> TRUE, ret |-> NoUser]
    ELSE [table |-> put_item(tbl, user_to_item(user)), raised |-> FALSE,
          ret |-> user]

\* a lookup that answers None when the call to the store raises
find_by_id_swallow(tbl, user_id, fault) ==
    LET item == get_item(tbl, StrUUID(user_id)) IN
    IF fault \/ item = NoItem THEN Returned(NoUser)
    ELSE IF ~Decodable(item) THEN Raised
    ELSE Returned(item_to_user(item))

\* find_by_id: get_item by key, None when the response has no 'Item'
find_by_id(tbl, user_id, fault) ==
    IF fault THEN Raised
    ELSE LET item == get_item(tbl, StrUUID(user_id)) IN
         IF item = NoItem THEN Returned(NoUser)
         ELSE IF ~Decodable(item) THEN Raised
         ELSE Returned(item_to_user(item))

\* a lookup that never finds the record
find_by_email_miss(first, fault) ==
    IF fault THEN Raised ELSE Returned(NoUser)

\* first is response['Items'][0], or NoItem when the list is empty
find_by_email(first, fault) ==
    IF fault THEN Raised
    ELSE IF first = NoItem THEN Returned(NoUser)
    ELSE IF ~Decodable(first) THEN Raised
    ELSE Returned(item_to_user(first))

\* an update that puts a new item of the key and the three attributes in
\* the place of the stored one
update_item_replace(tbl, key, name, is_active, updated_at) ==
    {i \in tbl : i.id # key} \cup
        {[id |-> key, name |-> name, is_active |-> is_active,
          updated_at |-> updated_at]}

\* update(): update_item SETs three attributes on the item with the key,
\* creating the item when the key is not in the table
update_item(tbl, key, name, is_active, updated_at) ==
    LET old == get_item(tbl, key) IN
    IF old = NoItem
    THEN tbl \cup {[id |-> key, name |-> name, is_active |-> is_active,
                   updated_at |-> updated_at]}
    ELSE (tbl \ {old}) \cup
         {[f \in DOMAIN old \cup {"name", "is_active", "updated_at"} |->
             IF f = "name" THEN name
             ELSE IF f = "is_active" THEN is_active
             ELSE IF f = "updated_at" THEN updated_at
             ELSE old[f]]}

update(tbl, user, fault) ==
    IF fault
    THEN [table |-> tbl, raised |-> TRUE, ret |-> NoUser]
    ELSE [table |-> update_item(tbl, StrUUID(user.id), user.name,
                                user.is_active, isoformat(user.updated_at)),
          raised |-> FALSE, ret |-> user]

\* delete(): delete_item without ReturnValues answers without 'Attributes'
delete(tbl, user_id, fault) ==
    IF fault
    THEN [table |-> tbl, raised |-> TRUE, ret |-> FALSE]
    ELSE [table |-> {i \in tbl : i.id # StrUUID(user_id)}, raised |-> FALSE,
          ret |-> FALSE]

\* scan(): the first page of the table. A page always takes PageItems
\* items; whether more fit depends on their size, so a larger table comes
\* back whole or cut short (with a LastEvaluatedKey the code never reads)
Pages(tbl) ==
    IF Cardinality(tbl) <= PageItems THEN {tbl}
    ELSE {page \in SUBSET tbl : Cardinality(page) >= PageItems}

\* the orders in which response['Items'] can list a page
Orders(page) ==
    {items \in [1..Cardinality(page) -> page] :
        \A i, j \in 1..Cardinality(page) : items[i] = items[j] => i = j}

\* FilterExpression 'is_active = :is_active' with True, applied to the page
ActiveItems(page) ==
    {i \in page : "is_active" \in DOMAIN i /\ i.is_active = TRUE}

RaisedList == [raised |-> TRUE, ret |-> << >>]

\* the loop over response['Items'] of find_all and find_active_users
items_to_users(items, fault) ==
    IF fault THEN RaisedList
    ELSE IF \E k \in 1..Len(items) : ~Decodable(items[k]) THEN RaisedList
    ELSE [raised |-> FALSE,
          ret |-> [k \in 1..Len(items) |-> item_to_user(items[k])]]

\* find_all(): items is response['Items'] of the one scan() it makes
find_all(items, fault) == items_to_users(items, fault)

\* find_active_users(): items is response['Items'] of the filtered scan
find_active_users(items, fault) == items_to_users(items, fault)

\* the existence check left out
UserExists_never(existing) == FALSE

\* `if existing_user:` - a User instance is always truthy, None is not
UserExists(existing) == existing # NoUser

\* ------------------------------------------------------------------ state
VARIABLES
    table,      \* the DynamoDB table: a set of items
    used,       \* UUIDs that were ever generated or supplied by a caller
    now,        \* the wall clock
    pc,         \* per CreateUser invocation: where execute() stands
    email,      \* per invocation: the email argument
    name,       \* per invocation: the name argument
    lookup,     \* per invocation: what find_by_email answered
    user,       \* per invocation: the entity built by execute()
    calls,      \* per invocation: the repository calls made, in order
    writes,     \* per invocation: how many items it has put into the table
    seen,       \* per invocation: the ids in the table when its id was drawn
                \* and when it was saved
    prior,      \* per invocation: had a CreateUser of this email succeeded
                \* before this one was called
    result,     \* per invocation: how execute() ended
    returned,   \* per invocation: the entity execute() returned
    succeeded,  \* emails for which some CreateUser has returned an entity
    get,        \* the last GetUser invocation: argument, item held, outcome
    last,       \* the most recent other call on the port or of ListUsers:
                \* operation, argument, table before it, outcome
    ent,        \* a User entity held in memory by some caller
    created,    \* that entity as its construction left it
    entop,      \* the most recent operation on that entity
    bucket,     \* the S3 bucket: the objects it holds
    s3op,       \* the most recent call on the S3 service
    made,       \* how many repository instances have been constructed
    repo_inst,  \* RepositoryFactory._user_repository_instance
    uc_inst,    \* UseCaseFactory's three cached use case instances, each
                \* given by the repository it is bound to
    facop       \* the most recent call on UseCaseFactory

vars == <<table, used, now, pc, email, name, lookup, user, calls, writes,
          seen, prior, result, returned, succeeded, get, last, ent, created,
          entop, bucket, s3op, made, repo_inst, uc_inst, facop>>

services == <<bucket, s3op, made, repo_inst, uc_inst, facop>>

\* the use cases UseCaseFactory caches
UseCaseTypes == {"create_user", "get_user", "get_all_users"}

\* None where a repository instance is expected
NoneRepo == 0

entity == <<ent, created, entop>>

invocation == <<pc, email, name, lookup, user, calls, writes, seen, prior,
                result, returned>>

NoGet == [id |-> NoneId, had |-> NoItem, fault |-> FALSE, result |-> "none",
          user |-> NoUser, saved |-> NoUser]

NoLast == [op |-> "none"]
NoOp == [op |-> "none"]

Init ==
    /\ table = {}
    /\ used = {}
    /\ now = 0
    /\ pc = [p \in Procs |-> "idle"]
    /\ email = [p \in Procs |-> EmailEmpty]
    /\ name = [p \in Procs |-> NameEmpty]
    /\ lookup = [p \in Procs |-> "none"]
    /\ user = [p \in Procs |-> NoUser]
    /\ calls = [p \in Procs |-> << >>]
    /\ writes = [p \in Procs |-> 0]
    /\ seen = [p \in Procs |-> {}]
    /\ prior = [p \in Procs |-> FALSE]
    /\ result = [p \in Procs |-> "none"]
    /\ returned = [p \in Procs |-> NoUser]
    /\ succeeded = {}
    /\ get = NoGet
    /\ last = NoLast
    /\ ent = NoUser
    /\ created = NoUser
    /\ entop = NoOp
    /\ bucket = {}
    /\ s3op = NoOp
    /\ made = 0
    /\ repo_inst = NoneRepo
    /\ uc_inst = [u \in UseCaseTypes |-> NoneRepo]
    /\ facop = NoOp

TableIds == {ParseUUID(i.id) : i \in table}

\* an identifier generator that can repeat itself
uuid4_reuse(known) == UUIDs

\* uuid4(): an identifier nobody has seen before; identifiers are
\* interchangeable, so the least unused one stands for any of them
uuid4(known) ==
    {id \in UUIDs \ known : \A other \in UUIDs \ known : id <= other}

\* two successive readings of the clock: it may advance between them
Readings(t) == {<<t, t2>> : t2 \in {t, IF t < MaxClock THEN t + 1 ELSE t}}

\* how a lookup that did not raise is recorded
resp_kind(resp) == IF resp.ret = NoUser THEN "absent" ELSE "found"

\* the log of repository calls: the operation and whether the client call
\* to the store raised
Logged(cs, op, fault) == Append(cs, <<op, IF fault THEN "fault" ELSE "ok">>)
Ops(cs) == [i \in 1..Len(cs) |-> cs[i][1]]

\* number of items a repository call put into the table
Written(before, after) == IF after = before THEN 0 ELSE 1

\* --------------------------------------------------- CreateUserUseCase.execute
\* the call, up to the first repository call: the business validations
execute_call(p, e, n) ==
    /\ pc[p] = "idle"
    /\ \A q \in Procs : q < p => pc[q] # "idle"
    /\ email' = [email EXCEPT ![p] = e]
    /\ name' = [name EXCEPT ![p] = n]
    /\ prior' = [prior EXCEPT ![p] = e \in succeeded]
    /\ IF Validate(e, n) = "InvalidInput"
       THEN /\ pc' = [pc EXCEPT ![p] = "done"]
            /\ result' = [result EXCEPT ![p] = "InvalidInput"]
       ELSE /\ pc' = [pc EXCEPT ![p] = "find_by_email"]
            /\ UNCHANGED result
    /\ UNCHANGED <<table, used, now, lookup, user, calls, writes, seen,
                   returned, succeeded, get, last>>
    /\ UNCHANGED entity
    /\ UNCHANGED services

\* find_by_email, the existence check and the construction of the entity
execute_find_by_email(p) ==
    /\ pc[p] = "find_by_email"
    /\ \E fault \in BOOLEAN, first \in FirstItems(table, email[p]) :
         LET resp == find_by_email(first, fault) IN
         /\ calls' = [calls EXCEPT ![p] = Logged(@, "find_by_email", fault)]
         /\ IF resp.raised
            THEN /\ lookup' = [lookup EXCEPT ![p] = "raised"]
                 /\ pc' = [pc EXCEPT ![p] = "done"]
                 /\ result' = [result EXCEPT ![p] = "StorageFailure"]
                 /\ UNCHANGED <<used, now, user, seen>>
            ELSE IF UserExists(resp.ret)
            THEN /\ lookup' = [lookup EXCEPT ![p] = "found"]
                 /\ pc' = [pc EXCEPT ![p] = "done"]
                 /\ result' = [result EXCEPT ![p] = "AlreadyExists"]
                 /\ UNCHANGED <<used, now, user, seen>>
            ELSE /\ lookup' = [lookup EXCEPT ![p] = resp_kind(resp)]
                 /\ \E fresh \in uuid4(used), r \in Readings(now) :
                      /\ user' = [user EXCEPT ![p] =
                                    User(fresh, email[p], name[p], TRUE,
                                         NoneDT, NoneDT, fresh, r[1], r[2])]
                      /\ used' = used \cup {fresh}
                      /\ now' = r[2]
                 /\ seen' = [seen EXCEPT ![p] = TableIds]
                 /\ pc' = [pc EXCEPT ![p] = "save"]
                 /\ UNCHANGED result
    /\ UNCHANGED <<table, email, name, writes, prior, returned, succeeded, get,
                   last>>
    /\ UNCHANGED entity
    /\ UNCHANGED services

\* save and the return of the saved entity
execute_save(p) ==
    /\ pc[p] = "save"
    /\ seen' = [seen EXCEPT ![p] = @ \cup TableIds]
    /\ \E fault \in BOOLEAN :
         LET resp == save(table, user[p], fault) IN
         /\ calls' = [calls EXCEPT ![p] = Logged(@, "save", fault)]
         /\ table' = resp.table
         /\ writes' = [writes EXCEPT ![p] = @ + Written(table, resp.table)]
         /\ pc' = [pc EXCEPT ![p] = "done"]
         /\ IF resp.raised
            THEN /\ result' = [result EXCEPT ![p] = "StorageFailure"]
                 /\ UNCHANGED <<returned, succeeded>>
            ELSE /\ result' = [result EXCEPT ![p] = "Success"]
                 /\ returned' = [returned EXCEPT ![p] = resp.ret]
                 /\ succeeded' = succeeded \cup {email[p]}
    /\ UNCHANGED <<used, now, email, name, lookup, user, prior, get, last>>
    /\ UNCHANGED entity
    /\ UNCHANGED services

\* the user that the call just before this one saved under this id, if that
\* call was a save that returned: nothing has written to the id since
JustSaved(user_id) ==
    IF last.op = "save" /\ ~last.raised /\ last.arg.id = user_id
    THEN last.arg
    ELSE NoUser

\* a lookup that takes the record it finds out of the table
GetUser_consume(user_id) ==
    \E fault \in BOOLEAN :
      LET resp == find_by_id(table, user_id, fault) IN
      /\ get' = [id |-> user_id,
                 had |-> get_item(table, StrUUID(user_id)),
                 fault |-> fault,
                 result |-> IF resp.raised THEN "StorageFailure"
                            ELSE IF resp.ret = NoUser THEN "NotFound"
                            ELSE "Success",
                 user |-> IF resp.raised THEN NoUser ELSE resp.ret,
                 saved |-> JustSaved(user_id)]
      /\ last' = NoLast
      /\ table' = {i \in table : i.id # StrUUID(user_id)}
      /\ UNCHANGED <<used, now, succeeded>>
      /\ UNCHANGED invocation
      /\ UNCHANGED entity
      /\ UNCHANGED services

\* ------------------------------------------------------ GetUserUseCase.execute
\* one repository call, so the whole of execute() is one step
GetUser(user_id) ==
    \E fault \in BOOLEAN :
      LET resp == find_by_id(table, user_id, fault) IN
      /\ get' = [id |-> user_id,
                 had |-> get_item(table, StrUUID(user_id)),
                 fault |-> fault,
                 result |-> IF resp.raised THEN "StorageFailure"
                            ELSE IF resp.ret = NoUser THEN "NotFound"
                            ELSE "Success",
                 user |-> IF resp.raised THEN NoUser ELSE resp.ret,
                 saved |-> JustSaved(user_id)]
      /\ last' = NoLast
      /\ UNCHANGED <<table, used, now, succeeded>>
      /\ UNCHANGED invocation
      /\ UNCHANGED entity
      /\ UNCHANGED services

\* ------------------------------------- the port's mutators, called directly
\* update(user) by a caller that holds an entity with this id
RepoUpdate(user_id, new_name, is_active) ==
    \E fault \in BOOLEAN :
      LET u == [id |-> user_id, name |-> new_name, is_active |-> is_active,
                updated_at |-> Utc(now)]
          resp == update(table, u, fault) IN
      /\ table' = resp.table
      /\ used' = used \cup {user_id}
      /\ last' = [op |-> "update", arg |-> u, before |-> table,
                  fault |-> fault, raised |-> resp.raised, ret |-> resp.ret]
      /\ get' = NoGet
      /\ UNCHANGED <<now, succeeded>>
      /\ UNCHANGED invocation
      /\ UNCHANGED entity
      /\ UNCHANGED services

\* save(user) by a caller that built the entity itself; its timestamps are
\* both aware or both naive
RepoSave(user_id, is_active, aware) ==
    \E fault \in BOOLEAN :
      LET stamp == [t |-> now, aware |-> aware]
          u == User(user_id, EmailOk, NameAnn, is_active, stamp, stamp,
                    user_id, now, now)
          resp == save(table, u, fault) IN
      /\ table' = resp.table
      /\ used' = used \cup {user_id}
      /\ last' = [op |-> "save", arg |-> u, before |-> table,
                  fault |-> fault, raised |-> resp.raised, ret |-> resp.ret]
      /\ get' = NoGet
      /\ UNCHANGED <<now, succeeded>>
      /\ UNCHANGED invocation
      /\ UNCHANGED entity
      /\ UNCHANGED services

\* GetAllUsersUseCase.execute: it returns what find_all returns
ListUsers ==
    \E fault \in BOOLEAN, page \in Pages(table) :
      \E items \in Orders(page) :
        LET resp == find_all(items, fault) IN
        /\ last' = [op |-> "list", arg |-> NoneId, before |-> table,
                    fault |-> fault, raised |-> resp.raised, ret |-> resp.ret]
        /\ get' = NoGet
        /\ UNCHANGED <<table, used, now, succeeded>>
        /\ UNCHANGED invocation
        /\ UNCHANGED entity
        /\ UNCHANGED services

FindActiveUsers ==
    \E fault \in BOOLEAN, page \in Pages(table) :
      \E items \in Orders(ActiveItems(page)) :
        LET resp == find_active_users(items, fault) IN
        /\ last' = [op |-> "find_active_users", arg |-> NoneId,
                    before |-> table, fault |-> fault,
                    raised |-> resp.raised, ret |-> resp.ret]
        /\ get' = NoGet
        /\ UNCHANGED <<table, used, now, succeeded>>
        /\ UNCHANGED invocation
        /\ UNCHANGED entity
        /\ UNCHANGED services

RepoDelete(user_id) ==
    \E fault \in BOOLEAN :
      LET resp == delete(table, user_id, fault) IN
      /\ table' = resp.table
      /\ last' = [op |-> "delete", arg |-> user_id, before |-> table,
                  fault |-> fault, raised |-> resp.raised, ret |-> resp.ret]
      /\ get' = NoGet
      /\ UNCHANGED <<used, now, succeeded>>
      /\ UNCHANGED invocation
      /\ UNCHANGED entity
      /\ UNCHANGED services

\* ---------------------------------------------------------- specifications
CreateUser ==
    \E p \in Procs :
        \/ \E r \in Requests : execute_call(p, r[1], r[2])
        \/ execute_find_by_email(p)
        \/ execute_save(p)

Next == CreateUser

Spec == Init /\ [][Next]_vars

\* CreateUser invocations one after another, nothing else touching the table
Quiet(p) == \A q \in Procs \ {p} : pc[q] \in {"idle", "done"}

SeqNext ==
    \E p \in Procs :
        \/ \E r \in Requests : Quiet(p) /\ execute_call(p, r[1], r[2])
        \/ execute_find_by_email(p)
        \/ execute_save(p)

SeqSpec == Init /\ [][SeqNext]_vars

\* the table as every caller of the port can make it, read by GetUser
RepoNext ==
    \/ execute_call(1, EmailOk, NameAnn)
    \/ execute_find_by_email(1)
    \/ execute_save(1)
    \/ \E id \in UUIDs : GetUser(id)
    \/ \E id \in UUIDs, a \in BOOLEAN : RepoUpdate(id, NameAnn, a)
    \/ \E id \in UUIDs : RepoDelete(id)

RepoSpec == Init /\ [][RepoNext]_vars

\* the single-record operations of the port, called in any order
PortNext ==
    \/ \E id \in UUIDs, a \in BOOLEAN, aware \in BOOLEAN :
          RepoSave(id, a, aware)
    \/ \E id \in UUIDs, a \in BOOLEAN : RepoUpdate(id, NameBlank, a)
    \/ \E id \in UUIDs : RepoDelete(id)
    \/ \E id \in UUIDs : GetUser(id)

PortSpec == Init /\ [][PortNext]_vars

\* the scanning operations of the port over tables built by save and update
ScanNext ==
    \/ \E id \in UUIDs, a \in BOOLEAN, aware \in BOOLEAN :
          RepoSave(id, a, aware)
    \/ \E id \in UUIDs, a \in BOOLEAN : RepoUpdate(id, NameBlank, a)
    \/ ListUsers
    \/ FindActiveUsers

ScanSpec == Init /\ [][ScanNext]_vars

\* the three use cases; a CreateUser starts when no other one is running
UseCaseNext ==
    \/ \E p \in Procs, e \in {EmailOk, EmailUpper, EmailNoAt} :
          Quiet(p) /\ execute_call(p, e, NameAnn)
    \/ \E p \in Procs : execute_find_by_email(p)
    \/ \E p \in Procs : execute_save(p)
    \/ \E id \in UUIDs : GetUser(id)
    \/ ListUsers

UseCaseSpec == Init /\ [][UseCaseNext]_vars

\* ------------------------------------------------- the entity's mutations
\* the default of the dataclass field is_active
is_active_default == TRUE

\* a renaming that leaves updated_at alone when the name stays the same
update_name_lazy(u, new_name, t) ==
    IF u.name = new_name THEN u
    ELSE [u EXCEPT !.name = new_name, !.updated_at = Utc(t)]

\* User.update_name; t is the reading of the clock
update_name(u, new_name, t) ==
    [u EXCEPT !.name = new_name, !.updated_at = Utc(t)]

\* a deactivation that stamps created_at as well
deactivate_recreate(u, t) ==
    [u EXCEPT !.is_active = FALSE, !.created_at = Utc(t),
              !.updated_at = Utc(t)]

\* User.deactivate
deactivate(u, t) == [u EXCEPT !.is_active = FALSE, !.updated_at = Utc(t)]

\* an activation that flips the flag
activate_toggle(u, t) ==
    [u EXCEPT !.is_active = ~u.is_active, !.updated_at = Utc(t)]

\* User.activate
activate(u, t) == [u EXCEPT !.is_active = TRUE, !.updated_at = Utc(t)]

\* User(id, email, name) when given is false, User(id, email, name,
\* is_active=a) when it is true
Construct(given, a) ==
    /\ ent = NoUser
    /\ \E r \in Readings(now) :
         /\ ent' = User(1, EmailOk, NameAnn,
                        IF given THEN a ELSE is_active_default,
                        NoneDT, NoneDT, 1, r[1], r[2])
         /\ now' = r[2]
    /\ created' = [given |-> given, user |-> ent']
    /\ entop' = [op |-> "construct", before |-> NoUser]
    /\ UNCHANGED <<table, used, succeeded, get, last>>
    /\ UNCHANGED invocation
    /\ UNCHANGED services

\* a method call on the entity; after is the entity it leaves and t the
\* reading of the clock it made
Mutation(op, after, t) ==
    /\ ent' = after
    /\ now' = t
    /\ entop' = [op |-> op, before |-> ent]
    /\ UNCHANGED <<table, used, succeeded, get, last, created>>
    /\ UNCHANGED invocation
    /\ UNCHANGED services

UpdateName(new_name) ==
    /\ ent # NoUser
    /\ \E r \in Readings(now) :
         Mutation("update_name", update_name(ent, new_name, r[2]), r[2])

Deactivate ==
    /\ ent # NoUser
    /\ \E r \in Readings(now) :
         Mutation("deactivate", deactivate(ent, r[2]), r[2])

Activate ==
    /\ ent # NoUser
    /\ \E r \in Readings(now) :
         Mutation("activate", activate(ent, r[2]), r[2])

EntityNext ==
    \/ \E given \in BOOLEAN, a \in BOOLEAN : Construct(given, a)
    \/ \E n \in {NameAnn, NameBlank} : UpdateName(n)
    \/ Deactivate
    \/ Activate

EntitySpec == Init /\ [][EntityNext]_vars

TypeOK ==
    /\ pc \in [Procs -> {"idle", "find_by_email", "save", "done"}]
    /\ result \in [Procs -> {"none", "Success", "InvalidInput",
                             "AlreadyExists", "StorageFailure"}]
    /\ now \in 0..MaxClock
    /\ used \subseteq UUIDs

\* ------------------------------------------------------------- properties
Failures == {"InvalidInput", "AlreadyExists", "StorageFailure"}

\* the invocation has made exactly these calls and the store answered each
Answered(p, ops) ==
    /\ Ops(calls[p]) = ops
    /\ \A i \in 1..Len(calls[p]) : calls[p][i][2] = "ok"

ItemOf(p) == user_to_item(user[p])

C2_Original ==
    /\ \A p \in Procs :
          pc[p] = "done" /\ prior[p] => result[p] = "AlreadyExists"
    /\ \A i, j \in table : i.email = j.email => i = j

\* C2 (amended): when CreateUser invocations run one after another and
\* nothing is deleted, no CreateUser(e, n') called after a CreateUser(e, n)
\* has returned an entity succeeds: it fails with InvalidInput when n' is
\* empty, with the storage failure when its lookup raises, and with
\* AlreadyExists otherwise; no two stored records share an email.
C2_SequentialUnique ==
    /\ \A p \in Procs :
          pc[p] = "done" /\ prior[p] =>
              /\ result[p] # "Success"
              /\ result[p] = IF Falsy(name[p]) THEN "InvalidInput"
                             ELSE IF lookup[p] = "raised" THEN "StorageFailure"
                             ELSE "AlreadyExists"
    /\ \A i, j \in table : i.email = j.email => i = j

C2_Witness ==
    \E p, q \in Procs :
        /\ p < q
        /\ result[p] = "Success"
        /\ email[q] = email[p]
        /\ name[q] # name[p]
        /\ prior[q]
        /\ result[q] = "AlreadyExists"

\* C3: two invocations with the same email that both got "absent" from their
\* lookup (each looked before the other saved) and whose Save calls the store
\* answered both return an entity, and the table holds both records, with
\* different ids and the same email: Save rejects neither.
C3_RaceStoresBoth ==
    \A p, q \in Procs :
        (/\ p # q
         /\ email[p] = email[q]
         /\ lookup[p] = "absent" /\ lookup[q] = "absent"
         /\ pc[p] = "done" /\ pc[q] = "done"
         /\ Answered(p, <<"find_by_email", "save">>)
         /\ Answered(q, <<"find_by_email", "save">>))
        => /\ result[p] = "Success" /\ result[q] = "Success"
           /\ returned[p].id # returned[q].id
           /\ returned[p].email = returned[q].email
           /\ {ItemOf(p), ItemOf(q)} \subseteq table

C3_Witness ==
    \E p, q \in Procs :
        /\ p # q
        /\ result[p] = "Success" /\ result[q] = "Success"
        /\ lookup[p] = "absent" /\ lookup[q] = "absent"
        /\ returned[p].email = returned[q].email
        /\ returned[p].id # returned[q].id
        /\ {ItemOf(p), ItemOf(q)} \subseteq table

\* C4: a validated request whose lookup finds nothing and whose calls the
\* store answers returns an entity that is active and carries an identifier
\* that is set and differs from the id of every record the table held when
\* the id was drawn and when the entity was saved; the stored records have
\* pairwise distinct ids and every returned entity is one of them.
C4_FreshActive ==
    /\ \A p \in Procs :
          (pc[p] = "done" /\ lookup[p] = "absent"
              /\ Answered(p, <<"find_by_email", "save">>))
          => result[p] = "Success"
    /\ \A p \in Procs :
          result[p] = "Success" =>
              /\ returned[p].is_active = TRUE
              /\ returned[p].id \in UUIDs
              /\ returned[p].id # NoneId
              /\ returned[p].id \notin seen[p]
              /\ \A q \in Procs \ {p} :
                    result[q] = "Success" => returned[q].id # returned[p].id
    /\ \A i, j \in table : i.id = j.id => i = j
    /\ Cardinality(table) = Cardinality({p \in Procs : result[p] = "Success"})

C4_Witness ==
    \E p \in Procs :
        /\ result[p] = "Success"
        /\ seen[p] # {}
        /\ returned[p].is_active
        /\ Cardinality(table) = 2

\* C5: every entity returned by a successful CreateUser has created_at equal
\* to updated_at, also when the clock advances during the construction.
C5_SameInstant ==
    \A p \in Procs :
        result[p] = "Success" =>
            returned[p].created_at = returned[p].updated_at

\* str.strip() leaves nothing of the string
Whitespace == {" ", "\n", "\t"}
Blank(s) == \A i \in 1..Len(s) : s[i] \in Whitespace

\* C6: a request whose name is empty or whitespace-only fails with
\* InvalidInput, whatever the email, and stores nothing.
C6_BlankNameRejected ==
    \A p \in Procs :
        pc[p] # "idle" /\ Blank(name[p]) =>
            /\ pc[p] = "done"
            /\ result[p] = "InvalidInput"
            /\ calls[p] = << >>
            /\ writes[p] = 0

\* the local@domain.tld shape: a local part of letters, digits and . _ % + -,
\* a dotted domain, a TLD of two or more letters, and nothing around it
HasEmailShape(e) ==
    \E at \in 2..Len(e), dot \in 4..Len(e) :
        /\ at + 1 < dot
        /\ dot + 2 <= Len(e)
        /\ e[at] = "@"
        /\ e[dot] = "."
        /\ AllIn(e, 1, at - 1, LocalChars)
        /\ AllIn(e, at + 1, dot - 1, DomainChars)
        /\ AllIn(e, dot + 1, Len(e), Letters)

\* C7: a request whose email does not have the local@domain.tld shape
\* (no '@', no domain, no TLD, whitespace around it, a trailing newline)
\* fails with InvalidInput.
C7_MalformedEmailRejected ==
    \A p \in Procs :
        pc[p] # "idle" /\ ~HasEmailShape(email[p]) =>
            /\ pc[p] = "done"
            /\ result[p] = "InvalidInput"

\* what lines 32-37 reject
Rejected(e, n) == Falsy(e) \/ Falsy(n) \/ ~is_valid_email(e)

IsPrefix(a, b) == Len(a) <= Len(b) /\ \A i \in 1..Len(a) : a[i] = b[i]

\* C8: the repository calls of one invocation are a prefix of
\* <<find_by_email, save>>, so Save never precedes the lookup and no call is
\* made twice; a successful invocation has made exactly these two, one that
\* ends with AlreadyExists exactly the lookup, and one whose request the
\* validations reject ends with InvalidInput without any call.
C8_CallOrder ==
    \A p \in Procs :
        /\ IsPrefix(Ops(calls[p]), <<"find_by_email", "save">>)
        /\ result[p] = "Success" =>
              Ops(calls[p]) = <<"find_by_email", "save">>
        /\ result[p] = "AlreadyExists" => Ops(calls[p]) = <<"find_by_email">>
        /\ result[p] = "InvalidInput" => calls[p] = << >>
        /\ (pc[p] # "idle" /\ Rejected(email[p], name[p])) =>
              result[p] = "InvalidInput" /\ calls[p] = << >>

C8_Witness ==
    \E p, q \in Procs :
        /\ result[p] = "Success"
        /\ Ops(calls[p]) = <<"find_by_email", "save">>
        /\ result[q] = "AlreadyExists"
        /\ Ops(calls[q]) = <<"find_by_email">>

\* C9: an invocation that reports a failure - InvalidInput, AlreadyExists or
\* a storage failure of the lookup or of Save - has written nothing: the
\* table holds no record of it, and the step in which it fails leaves the
\* table as it was.
C9_NoPartialWrite ==
    \A p \in Procs :
        result[p] \in Failures =>
            /\ writes[p] = 0
            /\ user[p] # NoUser => \A i \in table : i.id # StrUUID(user[p].id)

C9_Witness ==
    \E p \in Procs :
        /\ result[p] = "StorageFailure"
        /\ Ops(calls[p]) = <<"find_by_email", "save">>
        /\ calls[p][2][2] = "fault"
        /\ writes[p] = 0

\* the six fields of the entity against the stored item
SameAsItem(u, item) ==
    /\ Decodable(item)
    /\ StrUUID(u.id) = item.id
    /\ u.email = item.email
    /\ u.name = item.name
    /\ u.is_active = item.is_active
    /\ u.created_at.t = item.created_at.t
    /\ u.updated_at.t = item.updated_at.t

\* C10: GetUser(id), the store answering, fails with NotFound exactly when
\* the table holds no record with that id, and otherwise returns a user equal
\* to the stored record on all six fields.
C10_GetUser ==
    (get.result # "none" /\ ~get.fault) =>
        /\ get.result = "NotFound" <=> get.had = NoItem
        /\ get.had # NoItem =>
              get.result = "Success" /\ SameAsItem(get.user, get.had)

\* ------------------------------------------- the scans of the repository
\* every item of the table carries the six attributes _item_to_user reads
AllDecodable(tbl) == \A i \in tbl : Decodable(i)

\* how often the record of an item occurs in a returned list
Occurrences(users, item) ==
    Cardinality({k \in 1..Len(users) : SameAsItem(users[k], item)})

\* C11: ListUsers, the store answering and every stored item decodable,
\* returns every record the table holds exactly once, so the result is as
\* long as the table has records, whatever the number of pages of the scan.
C11_ListUsersComplete ==
    (last.op = "list" /\ ~last.fault /\ AllDecodable(last.before)) =>
        /\ ~last.raised
        /\ Len(last.ret) = Cardinality(last.before)
        /\ \A i \in last.before : Occurrences(last.ret, i) = 1

\* -------------------------------------------------- email normalisation
\* str.lower() on the alphabet used here
lower_char(c) == IF c = "A" THEN "a" ELSE c
str_lower(s) == [k \in 1..Len(s) |-> lower_char(s[k])]

\* str.strip(): the string without its leading and trailing whitespace
str_strip(s) ==
    LET kept == {k \in 1..Len(s) : s[k] \notin Whitespace} IN
    IF kept = {} THEN << >>
    ELSE LET lo == CHOOSE k \in kept : \A j \in kept : k <= j
             hi == CHOOSE k \in kept : \A j \in kept : j <= k
         IN SubSeq(s, lo, hi)

\* email.strip().lower()
normalized(s) == str_lower(str_strip(s))

\* C12: every record stored by CreateUser carries the request's email
\* lower-cased and trimmed: the stored email equals lower(trim(email)).
C12_StoredEmailNormalized ==
    \A p \in Procs :
        result[p] = "Success" =>
            \E i \in table :
                /\ i.id = StrUUID(returned[p].id)
                /\ i.email = normalized(email[p])

\* ------------------------------------------------------ storage failures
\* the position of the calls of an invocation that the store failed
Faulted(p) == {i \in 1..Len(calls[p]) : calls[p][i][2] = "fault"}

\* C13: when a repository call of CreateUser, GetUser or ListUsers fails in
\* the storage layer, the invocation ends right there with the storage
\* failure: nothing is returned, the outcome is neither success nor a domain
\* failure, and no repository operation is attempted twice by an invocation.
C13_StorageFailureSurfaces ==
    /\ \A p \in Procs :
          /\ Faulted(p) # {} =>
                /\ pc[p] = "done"
                /\ result[p] = "StorageFailure"
                /\ returned[p] = NoUser
                /\ Faulted(p) = {Len(calls[p])}
          /\ \A i, j \in 1..Len(calls[p]) :
                calls[p][i][1] = calls[p][j][1] => i = j
    /\ (get.result # "none" /\ get.fault) =>
          get.result = "StorageFailure" /\ get.user = NoUser
    /\ (last.op = "list" /\ last.fault) =>
          last.raised /\ last.ret = << >>

C13_Witness ==
    /\ \E p \in Procs :
          /\ Ops(calls[p]) = <<"find_by_email", "save">>
          /\ Faulted(p) = {2}
          /\ result[p] = "StorageFailure"
    /\ \E p \in Procs : result[p] = "Success"
    /\ last.op = "list"
    /\ last.fault
    /\ last.before # {}
    /\ last.raised

\* ------------------------------------------------ the port, record by record
\* the user read back equals the user saved on id, email, name and is_active
SameIdentity(u, v) ==
    /\ u.id = v.id
    /\ u.email = v.email
    /\ u.name = v.name
    /\ u.is_active = v.is_active

Others(tbl, key) == {i \in tbl : i.id # key}
Holds(tbl, key) == \E i \in tbl : i.id = key

\* C15: a save(u) that returned has left exactly one record under u.id, the
\* item of u, and every other record as it was: the record count is
\* unchanged when the id was stored before and one higher when it was not;
\* saving u once more leaves the table as it is.
C15_SaveUpsert ==
    (last.op = "save" /\ ~last.raised) =>
        LET key == StrUUID(last.arg.id) IN
        /\ {i \in table : i.id = key} = {user_to_item(last.arg)}
        /\ Others(table, key) = Others(last.before, key)
        /\ Holds(last.before, key) =>
              Cardinality(table) = Cardinality(last.before)
        /\ ~Holds(last.before, key) =>
              Cardinality(table) = Cardinality(last.before) + 1
        /\ save(table, last.arg, FALSE).table = table
        /\ user_to_item(last.arg) \in last.before => table = last.before

\* a save of the user that is stored already, next to another record
C15_Witness ==
    /\ last.op = "save"
    /\ ~last.raised
    /\ last.before = table
    /\ Cardinality(table) > 1

\* C16: a delete(id) that the store answered returns true exactly when the
\* table held a record under the id before the call and holds none after it,
\* false when it held none, and leaves every other record as it was.
C16_DeleteReports ==
    (last.op = "delete" /\ ~last.raised) =>
        LET key == StrUUID(last.arg) IN
        /\ last.ret = TRUE <=> (Holds(last.before, key) /\ ~Holds(table, key))
        /\ ~Holds(last.before, key) => last.ret = FALSE
        /\ Others(table, key) = Others(last.before, key)

\* the attributes that update() sets
Updated == {"name", "is_active", "updated_at"}

\* C17: an update(user) that returned, for an id the table held, has set the
\* name, is_active and updated_at of that record to the values in user and
\* left its other attributes (id, email, created_at) and every other record
\* as they were.
C17_UpdateFrame ==
    (last.op = "update" /\ ~last.raised
        /\ Holds(last.before, StrUUID(last.arg.id))) =>
        LET key == StrUUID(last.arg.id)
            old == get_item(last.before, key)
            new == get_item(table, key) IN
        /\ Cardinality({i \in table : i.id = key}) = 1
        /\ DOMAIN new = DOMAIN old \cup Updated
        /\ \A f \in DOMAIN old \ Updated : new[f] = old[f]
        /\ new.name = last.arg.name
        /\ new.is_active = last.arg.is_active
        /\ new.updated_at = isoformat(last.arg.updated_at)
        /\ Others(table, key) = Others(last.before, key)

\* an update of a complete record that changed all three attributes, next
\* to another record
C17_Witness ==
    /\ last.op = "update"
    /\ ~last.raised
    /\ \E old \in last.before, new \in table :
          /\ old.id = StrUUID(last.arg.id)
          /\ new.id = old.id
          /\ Decodable(old)
          /\ new.name # old.name
          /\ new.is_active # old.is_active
          /\ new.updated_at # old.updated_at
          /\ new.email = old.email
          /\ new.created_at = old.created_at
    /\ Cardinality(table) > 1

\* C18: find_active_users, the store answering and every stored item
\* decodable, returns exactly the records of the table whose is_active is
\* true: each of them once and no inactive one.
C18_ActiveUsersExact ==
    (last.op = "find_active_users" /\ ~last.fault
        /\ AllDecodable(last.before)) =>
        /\ ~last.raised
        /\ Len(last.ret) = Cardinality(ActiveItems(last.before))
        /\ \A i \in ActiveItems(last.before) : Occurrences(last.ret, i) = 1
        /\ \A k \in 1..Len(last.ret) : last.ret[k].is_active = TRUE

\* ---------------------------------------------------- the entity's flag
Mutations == {"update_name", "activate", "deactivate"}

\* C19: a user constructed without is_active is active; after activate the
\* flag is true and after deactivate it is false, whatever it was before;
\* update_name leaves the flag as it was.
C19_ActiveFlag ==
    /\ (created # NoUser /\ ~created.given) => created.user.is_active = TRUE
    /\ entop.op = "construct" => ent = created.user
    /\ entop.op = "activate" => ent.is_active = TRUE
    /\ entop.op = "deactivate" => ent.is_active = FALSE
    /\ entop.op = "update_name" => ent.is_active = entop.before.is_active

\* a user constructed without is_active, deactivated and activated again
C19_Witness ==
    /\ created # NoUser
    /\ ~created.given
    /\ entop.op = "activate"
    /\ entop.before.is_active = FALSE
    /\ ent.is_active = TRUE

\* C20: after update_name, activate or deactivate the entity's updated_at is
\* the time read by the call, also when the call changed neither the name
\* nor the flag; the other fields of the entity are not touched by it.
C20_MutationStamps ==
    entop.op \in Mutations =>
        /\ ent.updated_at = Utc(now)
        /\ ent.created_at = entop.before.created_at
        /\ ent.id = entop.before.id
        /\ ent.email = entop.before.email

\* an activate on an active user at a later reading of the clock
C20_Witness ==
    /\ entop.op = "activate"
    /\ entop.before.is_active = TRUE
    /\ ent.updated_at # entop.before.updated_at
    /\ ent.updated_at = Utc(now)

\* ------------------------------------------- construction with timestamps
\* the timestamps a caller can pass: none, or any instant
GivenTimes == {NoneDT} \cup {Utc(t) : t \in 0..MaxClock}

\* UserFactory.create_user_with_id: one reading t of the clock stands in for
\* each timestamp that is not given; ValueError (NoUser here) for a blank
\* email or name
create_user_with_id(user_id, e, n, is_active, created_at, updated_at, t) ==
    IF Blank(e) \/ Blank(n) THEN NoUser
    ELSE User(user_id, normalized(e), str_strip(n), is_active,
              IF created_at = NoneDT THEN Utc(t) ELSE created_at,
              IF updated_at = NoneDT THEN Utc(t) ELSE updated_at,
              user_id, t, t)

\* the entity comes into being as this user
Constructed(u) ==
    /\ ent = NoUser
    /\ u # NoUser
    /\ ent' = u
    /\ created' = [given |-> FALSE, user |-> u]
    /\ entop' = [op |-> "construct", before |-> NoUser]
    /\ UNCHANGED <<table, used, succeeded, get, last>>
    /\ UNCHANGED invocation
    /\ UNCHANGED services

\* User(id, email, name, created_at=c, updated_at=u)
ConstructGiven(c, u) ==
    \E r \in Readings(now) :
        /\ Constructed(User(1, EmailOk, NameAnn, is_active_default, c, u,
                            1, r[1], r[2]))
        /\ now' = r[2]

\* UserFactory.create_user_with_id(id, email, name, created_at=c,
\* updated_at=u)
CreateUserWithId(c, u) ==
    \E r \in Readings(now) :
        /\ Constructed(create_user_with_id(1, EmailUpper, NameAnn,
                                           is_active_default, c, u, r[2]))
        /\ now' = r[2]

\* the entity, however it was constructed, and its mutations
FactoryNext ==
    \/ EntityNext
    \/ \E c \in GivenTimes, u \in GivenTimes : ConstructGiven(c, u)
    \/ \E c \in GivenTimes, u \in GivenTimes : CreateUserWithId(c, u)

FactorySpec == Init /\ [][FactoryNext]_vars

\* C21: every User entity, however constructed and whatever mutations it has
\* gone through, has updated_at >= created_at.
C21_UpdatedNotBeforeCreated ==
    ent # NoUser => ent.updated_at.t >= ent.created_at.t

\* the fields no method of the entity assigns
SameOrigin(u, v) ==
    /\ u.id = v.id
    /\ u.email = v.email
    /\ u.created_at = v.created_at

\* C22: after any sequence of update_name, activate and deactivate the
\* entity's id, email and created_at are those of its construction;
\* update_name changes only name and updated_at, activate and deactivate
\* change only is_active and updated_at.
C22_MutationFrame ==
    /\ ent # NoUser => SameOrigin(ent, created.user)
    /\ entop.op \in Mutations => SameOrigin(ent, entop.before)
    /\ entop.op = "update_name" => ent.is_active = entop.before.is_active
    /\ entop.op \in {"activate", "deactivate"} =>
          ent.name = entop.before.name

\* a renamed user, deactivated at a later time than it was constructed
C22_Witness ==
    /\ entop.op = "deactivate"
    /\ entop.before.is_active = TRUE
    /\ ent.is_active = FALSE
    /\ ent.name # created.user.name
    /\ ent.updated_at # created.user.updated_at
    /\ SameOrigin(ent, created.user)

\* ------------------------------------------------------ failure reporting
FailureKinds == {"InvalidInput", "AlreadyExists", "NotFound", "StorageFailure"}

\* the subclasses of DomainException
DomainExceptions == {"UserNotFoundException", "UserAlreadyExistsException",
                     "InvalidUserDataException", "FileStorageException"}

\* use cases that raise ValueError for invalid data and for a taken email
exception_class_value_error(kind) ==
    IF kind \in {"InvalidInput", "AlreadyExists"} THEN "ValueError"
    ELSE IF kind = "NotFound" THEN "UserNotFoundException"
    ELSE "Exception"

\* the class of the exception that reaches the caller of the use case: the
\* use cases raise the domain exceptions, the adapter raises Exception
exception_class(kind) ==
    IF kind = "InvalidInput" THEN "InvalidUserDataException"
    ELSE IF kind = "AlreadyExists" THEN "UserAlreadyExistsException"
    ELSE IF kind = "NotFound" THEN "UserNotFoundException"
    ELSE "Exception"

\* str(e) of the exception CreateUserUseCase.execute raises
create_user_message(kind, e, n) ==
    IF kind = "InvalidInput"
    THEN IF Falsy(e) \/ Falsy(n) THEN "Email and name are required"
         ELSE "Invalid email"
    ELSE IF kind = "AlreadyExists" THEN "Email is already registered"
    ELSE "Error in DynamoDB"

\* the except clauses of the router's create_user
create_user_response(kind, e, n) ==
    IF exception_class(kind) \in {"InvalidUserDataException",
                                  "UserAlreadyExistsException"}
    THEN [status |-> 400, detail |-> create_user_message(kind, e, n)]
    ELSE [status |-> 500, detail |-> "Internal server error"]

\* the except clauses of the router's get_user
get_user_response(kind) ==
    IF exception_class(kind) = "UserNotFoundException"
    THEN [status |-> 404, detail |-> "User not found"]
    ELSE [status |-> 500, detail |-> "Internal server error"]

CreateUserFailures == {"InvalidInput", "AlreadyExists", "StorageFailure"}
GetUserFailures == {"NotFound", "StorageFailure"}

C24_RecordsComplete ==
    /\ AllDecodable(table)
    /\ (last.op = "update" /\ ~Holds(last.before, StrUUID(last.arg.id))) =>
          table = last.before

\* ------------------------------------------------- the frame of CreateUser
\* C25: the step in which a CreateUser succeeds adds the item of the
\* returned user to the table, under an id the table did not hold, and
\* leaves every record the table held as it was; in any interleaving.
C25_CreateAddsOne ==
    [][\A p \in Procs :
          (result[p] = "none" /\ result'[p] = "Success") =>
              /\ ~Holds(table, StrUUID(returned'[p].id))
              /\ table' = table \cup {user_to_item(returned'[p])}
              /\ Cardinality(table') = Cardinality(table) + 1]_vars

\* two invocations that ran interleaved have succeeded and the table holds
\* the record of each
C25_Witness ==
    \E p, q \in Procs :
        /\ p # q
        /\ result[p] = "Success"
        /\ result[q] = "Success"
        /\ email[p] = email[q]
        /\ writes[p] = 1
        /\ writes[q] = 1
        /\ table = {ItemOf(p), ItemOf(q)}
        /\ Cardinality(table) = 2

\* ------------------------------------------------------- the read-only use cases
\* a step of GetUser, and a step of ListUsers
GetUserStep == get'.result # "none" /\ <<get, last>>' # <<get, last>>
ListUsersStep == last'.op = "list" /\ <<get, last>>' # <<get, last>>

\* C26: a step of GetUser or ListUsers, whatever its outcome, leaves the
\* table as it was, every record and every field of it, and is no call of
\* save, update or delete.
C26_ReadOnly ==
    [][(GetUserStep \/ ListUsersStep) =>
          /\ table' = table
          /\ last'.op \notin {"save", "update", "delete"}
          /\ \A p \in Procs : calls'[p] = calls[p] /\ writes'[p] = writes[p]]_vars

\* GetUser has returned the entity of a record that is still in the table
\* next to another one
C26_Witness ==
    /\ get.result = "Success"
    /\ get.had \in table
    /\ Cardinality(table) = 2

\* ---------------------------------------------------------- the S3 service
\* sample keys and contents
Keys == {"k1", "k2"}
Contents == {"x", "y"}

\* how a request to S3 can fail whatever the bucket holds
S3Faults == {"none", "network", "throttling", "permission"}

HasKey(bkt, key) == \E o \in bkt : o.key = key

\* head_object raises for any failed request and for a key that is missing
head_object_raises(bkt, key, fault) == fault # "none" \/ ~HasKey(bkt, key)

\* an existence probe that answers False for a missing key only and lets
\* every other error through
file_exists_strict(bkt, key, fault) ==
    IF fault # "none" THEN [raised |-> TRUE, ret |-> FALSE]
    ELSE [raised |-> FALSE, ret |-> HasKey(bkt, key)]

\* AWSS3Service.file_exists: True after head_object, False on any exception
file_exists(bkt, key, fault) ==
    [raised |-> FALSE, ret |-> ~head_object_raises(bkt, key, fault)]

\* AWSS3Service.upload_file: the url, or the exception raised again
upload_file(bkt, key, content, fault) ==
    IF fault # "none"
    THEN [bucket |-> bkt, raised |-> TRUE, ret |-> << >>]
    ELSE [bucket |-> {o \in bkt : o.key # key}
                        \cup {[key |-> key, content |-> content]},
          raised |-> FALSE, ret |-> <<"https", key>>]

\* AWSS3Service.delete_file: True, or the exception raised again;
\* delete_object succeeds for a key the bucket does not hold
delete_file(bkt, key, fault) ==
    IF fault # "none"
    THEN [bucket |-> bkt, raised |-> TRUE, ret |-> FALSE]
    ELSE [bucket |-> {o \in bkt : o.key # key}, raised |-> FALSE,
          ret |-> TRUE]

\* a call on the service leaves everything else alone
S3Call(op, key, fault, resp, after) ==
    /\ s3op' = [op |-> op, key |-> key, fault |-> fault, before |-> bucket,
                raised |-> resp.raised, ret |-> resp.ret]
    /\ bucket' = after
    /\ UNCHANGED <<table, used, now, succeeded, get, last>>
    /\ UNCHANGED <<made, repo_inst, uc_inst, facop>>
    /\ UNCHANGED invocation
    /\ UNCHANGED entity

UploadFile(key, content) ==
    \E fault \in S3Faults :
        LET resp == upload_file(bucket, key, content, fault) IN
        S3Call("upload_file", key, fault, resp, resp.bucket)

DeleteFile(key) ==
    \E fault \in S3Faults :
        LET resp == delete_file(bucket, key, fault) IN
        S3Call("delete_file", key, fault, resp, resp.bucket)

FileExists(key) ==
    \E fault \in S3Faults :
        LET resp == file_exists(bucket, key, fault) IN
        S3Call("file_exists", key, fault, resp, bucket)

S3Next ==
    \/ \E key \in Keys, content \in Contents : UploadFile(key, content)
    \/ \E key \in Keys : DeleteFile(key)
    \/ \E key \in Keys : FileExists(key)

S3Spec == Init /\ [][S3Next]_vars

\* C27: file_exists never raises: it returns true exactly when the head
\* request on the key succeeds and false for a missing key and for every
\* failed request; upload_file and delete_file raise for every failed
\* request, leaving the bucket as it was, and return otherwise.
C27_ExistsNeverFails ==
    /\ s3op.op = "file_exists" =>
          /\ ~s3op.raised
          /\ s3op.ret = TRUE <=>
                (s3op.fault = "none" /\ HasKey(s3op.before, s3op.key))
          /\ bucket = s3op.before
    /\ s3op.op \in {"upload_file", "delete_file"} =>
          /\ s3op.raised <=> s3op.fault # "none"
          /\ s3op.raised => bucket = s3op.before

\* a probe for a stored key that a refused request answers with false
C27_Witness ==
    /\ s3op.op = "file_exists"
    /\ s3op.fault = "permission"
    /\ HasKey(s3op.before, s3op.key)
    /\ s3op.ret = FALSE
    /\ ~s3op.raised

\* ------------------------------------------------------------ the factories
\* A repository instance is its number in order of construction; a use case
\* instance is given by the repository it was constructed with.

\* RepositoryFactory.create_user_repository: the cached instance, or a new
\* one that it caches; n instances exist so far
create_user_repository(inst, n) ==
    IF inst = NoneRepo
    THEN [inst |-> n + 1, made |-> n + 1, ret |-> n + 1]
    ELSE [inst |-> inst, made |-> n, ret |-> inst]

get_user_repository(inst, n) == create_user_repository(inst, n)

\* UseCaseFactory.create_create_user_use_case, create_get_user_use_case and
\* create_get_all_users_use_case: cached is the class attribute of the use
\* case, user_repository the argument
create_use_case(cached, user_repository, inst, n) ==
    IF cached # NoneRepo
    THEN [cached |-> cached, inst |-> inst, made |-> n, ret |-> cached]
    ELSE IF user_repository # NoneRepo
    THEN [cached |-> user_repository, inst |-> inst, made |-> n,
          ret |-> user_repository]
    ELSE LET r == get_user_repository(inst, n) IN
         [cached |-> r.ret, inst |-> r.inst, made |-> r.made, ret |-> r.ret]

\* a call on a factory leaves everything else alone
FactoryCall(op, type, arg, ret) ==
    /\ facop' = [op |-> op, type |-> type, arg |-> arg, ret |-> ret]
    /\ UNCHANGED <<table, used, now, succeeded, get, last>>
    /\ UNCHANGED <<bucket, s3op>>
    /\ UNCHANGED invocation
    /\ UNCHANGED entity

\* UseCaseFactory.create_*_use_case(user_repository)
CreateUseCase(type, user_repository) ==
    LET r == create_use_case(uc_inst[type], user_repository, repo_inst,
                             made) IN
    /\ r.made <= MaxRepos
    /\ uc_inst' = [uc_inst EXCEPT ![type] = r.cached]
    /\ repo_inst' = r.inst
    /\ made' = r.made
    /\ FactoryCall("create", type, user_repository, r.ret)

\* UseCaseFactory.get_*_use_case()
GetUseCase(type) ==
    LET r == create_use_case(uc_inst[type], NoneRepo, repo_inst, made) IN
    /\ r.made <= MaxRepos
    /\ uc_inst' = [uc_inst EXCEPT ![type] = r.cached]
    /\ repo_inst' = r.inst
    /\ made' = r.made
    /\ FactoryCall("get", type, NoneRepo, r.ret)

\* UseCaseFactory.reset_*_use_case()
ResetUseCase(type) ==
    /\ uc_inst' = [uc_inst EXCEPT ![type] = NoneRepo]
    /\ UNCHANGED <<repo_inst, made>>
    /\ FactoryCall("reset", type, NoneRepo, NoneRepo)

\* RepositoryFactory.get_user_repository()
GetUserRepository ==
    LET r == get_user_repository(repo_inst, made) IN
    /\ r.made <= MaxRepos
    /\ repo_inst' = r.inst
    /\ made' = r.made
    /\ UNCHANGED uc_inst
    /\ FactoryCall("get_user_repository", "repository", NoneRepo, r.ret)

\* RepositoryFactory.reset_user_repository()
ResetUserRepository ==
    /\ repo_inst' = NoneRepo
    /\ UNCHANGED <<uc_inst, made>>
    /\ FactoryCall("reset_user_repository", "repository", NoneRepo, NoneRepo)

\* RepositoryFactory.create_repository_by_type("dynamodb"): a new instance
\* that no factory caches
CreateRepositoryByType ==
    /\ made < MaxRepos
    /\ made' = made + 1
    /\ UNCHANGED <<uc_inst, repo_inst>>
    /\ FactoryCall("create_repository_by_type", "repository", NoneRepo,
                   made + 1)

WiringNext ==
    \/ \E type \in UseCaseTypes, r \in 0..made : CreateUseCase(type, r)
    \/ \E type \in UseCaseTypes : GetUseCase(type)
    \/ \E type \in UseCaseTypes : ResetUseCase(type)
    \/ GetUserRepository
    \/ ResetUserRepository
    \/ CreateRepositoryByType

WiringSpec == Init /\ [][WiringNext]_vars

\* C28: create_*_use_case(user_repository=R) returns a use case bound to R
\* whenever a repository R is passed, whatever factory calls came before.
C28_BoundToSupplied ==
    (facop.op = "create" /\ facop.arg # NoneRepo) => facop.ret = facop.arg

\* C29: in every state the factories can be in, the use case that
\* UseCaseFactory.get_*_use_case() returns is bound to the repository that
\* RepositoryFactory.get_user_repository() returns after it.
C29_BoundToCurrent ==
    \A type \in UseCaseTypes :
        LET uc == create_use_case(uc_inst[type], NoneRepo, repo_inst, made)
        IN uc.ret = get_user_repository(uc.inst, uc.made).ret

====
